---- MODULE Spec2Model ----
(***************************************************************************)
(* Device kernels of the CSR sparse-matrix times dense-matrix product      *)
(* (library/src/level3/csrmm_device.h):                                    *)
(*   csrmmnn_general_device, csrmmnt_general_device, csrmm_scale_device,   *)
(*   csrmmtn_general_device, csrmmtt_general_device.                       *)
(*                                                                         *)
(* Execution model.  A launch is a grid of blocks of BLOCKSIZE threads.    *)
(* The WF_SIZE threads with the same tid / WF_SIZE form a subgroup; a      *)
(* subgroup is (part of) one wavefront and has a single control position:  *)
(* its lanes execute the same statement together, lanes for which a loop   *)
(* or branch condition is false sit the statement out.  Subgroups and      *)
(* blocks interleave arbitrarily.  Stores to C and atomic adds into C are  *)
(* issued lane by lane in any order and interleave with every other        *)
(* subgroup.  __syncthreads() is the work-group barrier of the device: a   *)
(* subgroup that reaches it waits until every subgroup of its block that   *)
(* has not yet left the kernel waits at a barrier too.                     *)
(*                                                                         *)
(* Values of type T are complex numbers with integer parts, <<re, im>>.    *)
(***************************************************************************)
EXTENDS Integers, Sequences, FiniteSets, TLC

\* template <unsigned int BLOCKSIZE, unsigned int WF_SIZE, ...>
\* WF_SIZE of the source (WF_ begins the fairness operator in TLA+)
WFSIZE == 2
BLOCKSIZE == 4

\* bounds of the model
MaxRows == 3     \* rows of the stored CSR matrix
MaxCols == 2     \* columns of the stored CSR matrix
MaxN == 3        \* columns of the dense matrices
MaxRowNnz == 3   \* nonzeros in one stored row
MaxNnz == 3      \* nonzeros of the stored CSR matrix
MaxBlocks == 2   \* blocks in one launch
MaxPad == 1      \* padding of a leading dimension

Lanes == 0 .. (WFSIZE - 1)
Wids == 0 .. ((BLOCKSIZE \div WFSIZE) - 1)

-----------------------------------------------------------------------------
(* arithmetic on T *)

Zero == <<0, 0>>


add(a, b) == <<a[1] + b[1], a[2] + b[2]>>

mul(a, b) == <<a[1] * b[1] - a[2] * b[2], a[1] * b[2] + a[2] * b[1]>>

rocsparse_conj(a) == <<a[1], 0 - a[2]>>

rocsparse_fma(a, b, c) == add(mul(a, b), c)

rocsparse_operation_none == "none"
rocsparse_operation_transpose == "transpose"
rocsparse_operation_conjugate_transpose == "conjugate_transpose"
rocsparse_order_column == "column"
rocsparse_order_row == "row"


\* number of blocks of width w that cover n elements
CeilDiv(n, w) == (n + w - 1) \div w

\* sum of f[i] over the integer range lo .. hi - 1, in increasing order
RECURSIVE SumRange(_, _, _)
SumRange(f, lo, hi) == IF lo >= hi THEN Zero ELSE add(SumRange(f, lo, hi - 1), f[hi - 1])

-----------------------------------------------------------------------------
(* inputs: the arguments of a kernel invocation *)

\* a CSR matrix with row lengths len (a sequence), column indices below q, in index base b:
\* row_ptr has Len(len) + 1 entries and is non-decreasing, col_ind and val have nnz entries
RECURSIVE PrefixSum(_, _)
PrefixSum(len, r) == IF r = 0 THEN 0 ELSE PrefixSum(len, r - 1) + len[r]

CsrRowPtr(len, b) == [r \in 0 .. Len(len) |-> PrefixSum(len, r) + b]

CsrColInd(len, q, b) == [k \in 0 .. (PrefixSum(len, Len(len)) - 1) |-> (k % q) + b]

CsrVal(len) == [k \in 0 .. (PrefixSum(len, Len(len)) - 1) |-> <<k + 1, (k % 2) + 1>>]

\* row-length sequences of the stored matrix
RECURSIVE RowLens(_)
RowLens(r) ==
    IF r = 0 THEN {<< >>}
    ELSE {Append(p, n) : p \in RowLens(r - 1), n \in 0 .. MaxRowNnz}

\* a dense buffer of the given size with pairwise different entries
DenseBuf(size, seed) == [a \in 0 .. (size - 1) |-> <<2 * a + seed, a + 1>>]

\* the square buffer (ld by ld) that holds at [j + ld * i] what b holds at [i + ld * j]
TransposedBuf(b, ld) == [a \in DOMAIN b |-> b[(a \div ld) + ld * (a % ld)]]

-----------------------------------------------------------------------------
(* state *)

VARIABLES
    args,        \* arguments shared by the launches of one host program
    C,           \* the dense output buffer
    launch,      \* the running launch: kernel, grid, B buffer ...; kernel "idle" between launches
    queue,       \* launches still to be made
    snap,        \* contents of C at the end of each completed launch
    wf,          \* per subgroup: control position and the registers of its lanes
    shared_col,  \* __shared__ J shared_col[BLOCKSIZE / WF_SIZE][WF_SIZE], one per block
    shared_val,  \* __shared__ T shared_val[BLOCKSIZE / WF_SIZE][WF_SIZE], one per block
    shared_B,    \* __shared__ T shared_B[BLOCKSIZE / WF_SIZE][WF_SIZE], one per block
    todo,        \* threads of csrmm_scale_device that have not run yet
    Cacc         \* accesses to C made by the running launch: addresses read, stores and
                 \* atomic adds per address, the atomic adds made

vars == <<args, C, launch, queue, snap, wf, shared_col, shared_val, shared_B, todo, Cacc>>

\* a subgroup is <<hipBlockIdx_x, hipBlockIdx_y, wid>>; lane t of it is thread tid of its block
Subgroups(gx, gy) == (0 .. (gx - 1)) \X (0 .. (gy - 1)) \X Wids

Blocks(gx, gy) == (0 .. (gx - 1)) \X (0 .. (gy - 1))

BlockOf(s) == <<s[1], s[2]>>

hipBlockIdx_x(s) == s[1]
hipBlockIdx_y(s) == s[2]

\* int tid = hipThreadIdx_x
Tid(s, t) == s[3] * WFSIZE + t

\* J gid = hipBlockIdx_x * BLOCKSIZE + tid
Gid(s, t) == hipBlockIdx_x(s) * BLOCKSIZE + Tid(s, t)

\* int lid = gid & (WF_SIZE - 1), WF_SIZE a power of two
Lid(s, t) == Gid(s, t) % WFSIZE

\* Wid that gives every subgroup of a block the first row of the shared arrays
Wid_zero(s, t) == 0

\* int wid = tid / WF_SIZE
Wid(s, t) == Tid(s, t) \div WFSIZE

\* J nwf = hipGridDim_x * BLOCKSIZE / WF_SIZE
Nwf == (launch.gridDim_x * BLOCKSIZE) \div WFSIZE

\* the row a subgroup starts with: gid / WF_SIZE, the same for all its lanes
FirstRow(s) == Gid(s, 0) \div WFSIZE

\* address of element (row, col) of C under the order flag
CAddr(row, col) ==
    IF args.order = rocsparse_order_column THEN row + col * args.ldc ELSE row * args.ldc + col

Poison == <<1000, 1000>>

\* scat: the atomic adds made, each as <<nonzero j, column n of C, address, value added>>
NoAccess ==
    [reads |-> {}, stores |-> [a \in DOMAIN C |-> 0], adds |-> [a \in DOMAIN C |-> 0], scat |-> {}]

Load(acc, a) == [acc EXCEPT !.reads = @ \cup {a}]
Stored(acc, a) == [acc EXCEPT !.stores[a] = @ + 1]
Added(acc, a) == [acc EXCEPT !.adds[a] = @ + 1]


\* registers of a subgroup: the loop variables row, j, l and i are the same in all its lanes
\* (lane t works on j + lid, l + lid), sum is per lane
Regs(pc, row, rs, re, j, l) ==
    [pc |-> pc, row |-> row, row_start |-> rs, row_end |-> re, j |-> j, l |-> l, i |-> 0,
     sum |-> [t \in Lanes |-> Zero]]

Exited == Regs("done", 0, 0, 0, 0, 0)

\* the lane of subgroup s that owns slot [w][i] of the block's shared arrays, if any; lid[t] is
\* the lid of lane t
Owner(s, lid, w, i) == {t \in Lanes : Wid(s, t) = w /\ lid[t] = i}

\* every lane t of s writes f[t] to its slot [wid][lid] of the shared array sh of its block
WriteSlots(sh, s, lid, f) ==
    [sh EXCEPT ![BlockOf(s)] =
        [w \in Wids |-> [i \in Lanes |->
            IF Owner(s, lid, w, i) # {} THEN f[CHOOSE t \in Owner(s, lid, w, i) : TRUE]
            ELSE @[w][i]]]]

\* opA that conjugates under every transposed mode
opA_any(v) == IF args.trans_A # rocsparse_operation_none THEN rocsparse_conj(v) ELSE v

opA(v) == IF args.trans_A = rocsparse_operation_conjugate_transpose THEN rocsparse_conj(v) ELSE v

opB(v) == IF args.trans_B = rocsparse_operation_conjugate_transpose THEN rocsparse_conj(v) ELSE v

-----------------------------------------------------------------------------
(* loop control of csrmmtn_general_device and csrmmtt_general_device *)

\* tn_cid without the columns of the blocks before this one
tn_cid_noy(s, t) == Lid(s, t)

\* J cid = lid + hipBlockIdx_y * WF_SIZE
tn_cid(s, t) == Lid(s, t) + hipBlockIdx_y(s) * WFSIZE

\* the element of B a lane buffers for the row: B[row + colB] in tn, B[ldb * row + cid] in tt
tn_B(row, cid) == launch.B[row + cid * args.ldb]

\* tt_B with the addressing of tn
tt_B_as_tn(row, cid) == launch.B[row + cid * args.ldb]

tt_B(row, cid) == launch.B[args.ldb * row + cid]

\* for(J row = gid / WF_SIZE; row < K; row += nwf): the loop test and the reads of csr_row_ptr.
\* A read past the end of csr_row_ptr is undefined: the subgroup stops at "fault" with the
\* row it was reading for, and nothing it would do after that is modelled
tn_row(row) ==
    IF row < args.K
    THEN IF (row + 1) \in DOMAIN args.csr_row_ptr
         THEN LET rs == args.csr_row_ptr[row] - args.idx_base
                  re == args.csr_row_ptr[row + 1] - args.idx_base
              IN  Regs("load", row, rs, re, rs, 0)
         ELSE Regs("fault", row, 0, 0, 0, 0)
    ELSE Exited

\* tn_active without the lanes whose own column cid is not below N
tn_active_own(s, r) == {t \in Lanes : r.j + Lid(s, t) < r.row_end /\ tn_cid(s, t) < args.N}

\* the lanes that are in the body of for(I j = row_start + lid; j < row_end; j += WF_SIZE)
\* when lane 0 has j = r.j
tn_active(s, r) == {t \in Lanes : r.j + Lid(s, t) < r.row_end}

\* i < WF_SIZE && (i + hipBlockIdx_y * WF_SIZE) < N
tn_inner(s, i) == i < WFSIZE /\ (i + hipBlockIdx_y(s) * WFSIZE) < args.N

\* the test of for(I j = ...; j < row_end; ...) for the whole subgroup: while a lane is in
\* the loop (and the block has a column below N) the subgroup scatters, else the subgroup
\* goes on to row += nwf
tn_loop(s, r) ==
    IF tn_active(s, r) # {} /\ tn_inner(s, 0) THEN [r EXCEPT !.pc = "scatter"]
    ELSE tn_row(r.row + Nwf)

\* the registers after the atomic add of column i: ++i, and at the end of the inner loop
\* j += WF_SIZE and the loop test
tn_step(s, r) ==
    IF tn_inner(s, r.i + 1) THEN [r EXCEPT !.i = r.i + 1]
    ELSE tn_loop(s, [r EXCEPT !.j = r.j + WFSIZE, !.i = 0])

-----------------------------------------------------------------------------
(* __syncthreads() *)

SyncPcs == {"sync1", "sync2", "sync"}

\* the registers of a subgroup that leaves the barrier; in tn and tt the barrier is followed
\* by the test of the nonzero loop: with no lane in the loop the subgroup is at row += nwf
AfterSync(s, r) ==
    IF r.pc = "sync1" THEN [r EXCEPT !.pc = "write"]
    ELSE IF r.pc = "sync2" THEN [r EXCEPT !.pc = "scan"]
    ELSE tn_loop(s, r)

\* syncthreads_open that waits for the subgroups that have left the kernel too
syncthreads_open_all(b) ==
    /\ \E s \in DOMAIN wf : BlockOf(s) = b /\ wf[s].pc \in SyncPcs
    /\ \A s \in DOMAIN wf : BlockOf(s) = b => wf[s].pc \in SyncPcs

\* the barrier of block b opens when every subgroup of the block that is still in the kernel
\* waits at it
syncthreads_open(b) ==
    /\ \E s \in DOMAIN wf : BlockOf(s) = b /\ wf[s].pc \in SyncPcs
    /\ \A s \in DOMAIN wf : BlockOf(s) = b => wf[s].pc \in SyncPcs \cup {"done"}

syncthreads(b) ==
    /\ launch.kernel \in {"nn", "nt", "tn", "tt"}
    /\ syncthreads_open(b)
    /\ wf' = [s \in DOMAIN wf |->
                IF BlockOf(s) = b /\ wf[s].pc \in SyncPcs
                THEN AfterSync(s, wf[s]) ELSE wf[s]]
    /\ UNCHANGED <<args, C, launch, queue, snap, shared_col, shared_val, shared_B, todo, Cacc>>

-----------------------------------------------------------------------------
(* csrmmnn_general_device *)

\* nn_col without the columns of the blocks before this one
nn_col_noy(s, t) == Lid(s, t)

\* J col = lid + hipBlockIdx_y * WF_SIZE
nn_col(s, t) == Lid(s, t) + hipBlockIdx_y(s) * WFSIZE

\* for(J row = gid / WF_SIZE; row < M; row += nwf): the loop test and the head of the body,
\* up to the test of the tile loop
nn_row(row) ==
    IF row < args.M
    THEN LET rs == args.csr_row_ptr[row] - args.idx_base
             re == args.csr_row_ptr[row + 1] - args.idx_base
         IN  IF rs < re THEN Regs("sync1", row, rs, re, rs, 0)
                        ELSE Regs("store", row, rs, re, rs, 0)
    ELSE Exited

\* nn_tile_col that does not subtract the index base
nn_tile_col_nobase(k, row_end) == IF k < row_end THEN args.csr_col_ind[k] ELSE 0

\* (k < row_end) ? csr_col_ind[k] - idx_base : 0
nn_tile_col(k, row_end) == IF k < row_end THEN args.csr_col_ind[k] - args.idx_base ELSE 0

\* nn_tile_val with a one in place of the zero that pads the tile
nn_tile_val_pad1(k, row_end) == IF k < row_end THEN opA(args.csr_val[k]) ELSE <<1, 0>>

\* (k < row_end) ? csr_val[k] : 0, conjugated under conjugate-transpose
nn_tile_val(k, row_end) == IF k < row_end THEN opA(args.csr_val[k]) ELSE Zero

\* the two stores to shared memory between the barriers; I k = j + lid
nn_write(s) ==
    /\ launch.kernel = "nn"
    /\ wf[s].pc = "write"
    /\ LET r == wf[s]
           k(t) == r.j + Lid(s, t)
       IN  /\ shared_col' = WriteSlots(shared_col, s, [t \in Lanes |-> Lid(s, t)],
                  [t \in Lanes |-> nn_tile_col(k(t), r.row_end)])
           /\ shared_val' = WriteSlots(shared_val, s, [t \in Lanes |-> Lid(s, t)],
                  [t \in Lanes |-> nn_tile_val(k(t), r.row_end)])
    /\ wf' = [wf EXCEPT ![s].pc = "sync2"]
    /\ UNCHANGED <<args, C, launch, queue, snap, shared_B, todo, Cacc>>

\* for(J i = 0; i < WF_SIZE && col < N; ++i) sum = fma(shared_val[wid][i], B[shared_col[wid][i] + colB], sum)
RECURSIVE nn_dot(_, _, _, _)
nn_dot(s, t, i, sum) ==
    IF i < WFSIZE /\ nn_col(s, t) < args.N
    THEN nn_dot(s, t, i + 1,
             rocsparse_fma(shared_val[BlockOf(s)][Wid(s, t)][i],
                           opB(launch.B[shared_col[BlockOf(s)][Wid(s, t)][i] + nn_col(s, t) * args.ldb]),
                           sum))
    ELSE sum

\* the scan of the buffered tile, then j += WF_SIZE and the test of the tile loop
nn_scan(s) ==
    /\ launch.kernel = "nn"
    /\ wf[s].pc = "scan"
    /\ LET r == wf[s]
           next == r.j + WFSIZE
       IN  wf' = [wf EXCEPT ![s] =
                    [r EXCEPT !.sum = [t \in Lanes |-> nn_dot(s, t, 0, r.sum[t])],
                              !.j = next,
                              !.pc = IF next < r.row_end THEN "sync1" ELSE "store"]]
    /\ UNCHANGED <<args, C, launch, queue, snap, shared_col, shared_val, shared_B, todo, Cacc>>

\* store_op that takes the fma branch whatever beta is
store_op_fma(a, sum) ==
    [val |-> rocsparse_fma(args.beta, C[a], mul(args.alpha, sum)), read |-> TRUE]

\* store_op that adds alpha * sum to C[a]
store_op_acc(a, sum) == [val |-> add(C[a], mul(args.alpha, sum)), read |-> TRUE]

\* store_op that leaves C[a] as it is when the sum is zero
store_op_skip(a, sum) ==
    IF sum = Zero THEN [val |-> C[a], read |-> TRUE]
    ELSE IF args.beta = Zero THEN [val |-> mul(args.alpha, sum), read |-> FALSE]
    ELSE [val |-> rocsparse_fma(args.beta, C[a], mul(args.alpha, sum)), read |-> TRUE]

\* the final store of one lane to C[a]: the value stored, and whether C[a] is read for it:
\* alpha * sum if beta is zero, else fma(beta, C[a], alpha * sum)
store_op(a, sum) ==
    IF args.beta = Zero
    THEN [val |-> mul(args.alpha, sum), read |-> FALSE]
    ELSE [val |-> rocsparse_fma(args.beta, C[a], mul(args.alpha, sum)), read |-> TRUE]

\* the lanes in act store val[t] at addr[t]
RECURSIVE StoreLanes(_, _, _, _)
StoreLanes(buf, act, addr, val) ==
    IF act = {} THEN buf
    ELSE LET t == CHOOSE x \in act : \A y \in act : x <= y
         IN  StoreLanes([buf EXCEPT ![addr[t]] = val[t]], act \ {t}, addr, val)

\* the accesses of these stores: a load of addr[t] where rd[t], and a store
RECURSIVE AccLanes(_, _, _, _)
AccLanes(acc, act, addr, rd) ==
    IF act = {} THEN acc
    ELSE LET t == CHOOSE x \in act : \A y \in act : x <= y
             a == addr[t]
         IN  AccLanes(IF rd[t] THEN Stored(Load(acc, a), a) ELSE Stored(acc, a),
                      act \ {t}, addr, rd)

\* if(col < N) { ... } in every lane, then row += nwf and the loop test
nn_store(s) ==
    /\ launch.kernel = "nn"
    /\ wf[s].pc = "store"
    /\ LET act == {t \in Lanes : nn_col(s, t) < args.N}
           addr == [t \in Lanes |-> CAddr(wf[s].row, nn_col(s, t))]
           op == [t \in Lanes |-> IF t \in act THEN store_op(addr[t], wf[s].sum[t])
                                  ELSE [val |-> Zero, read |-> FALSE]]
       IN  /\ C' = StoreLanes(C, act, addr, [t \in Lanes |-> op[t].val])
           /\ Cacc' = AccLanes(Cacc, act, addr, [t \in Lanes |-> op[t].read])
    /\ wf' = [wf EXCEPT ![s] = nn_row(wf[s].row + Nwf)]
    /\ UNCHANGED <<args, launch, queue, snap, shared_col, shared_val, shared_B, todo>>

-----------------------------------------------------------------------------
(* csrmmnt_general_device *)

\* int lid = tid & (WF_SIZE - 1)
nt_lid(s, t) == Tid(s, t) % WFSIZE

\* nt_col that counts the columns from offset
nt_col_rel(s, t, l) == (l - launch.offset) + nt_lid(s, t)

\* J col = l + lid
nt_col(s, t, l) == l + nt_lid(s, t)

\* for(J l = offset; l < ncol; l += WF_SIZE): the loop test and the head of the body,
\* up to the test of the tile loop
nt_tile(row, rs, re, l, ncol) ==
    IF l < ncol
    THEN IF rs < re THEN Regs("sync1", row, rs, re, rs, l)
                    ELSE Regs("store", row, rs, re, rs, l)
    ELSE Exited

\* nt_tile_col without the factor ldb
nt_tile_col_noldb(k, row_end) == IF k < row_end THEN args.csr_col_ind[k] - args.idx_base ELSE 0

\* (k < row_end) ? ldb * (csr_col_ind[k] - idx_base) : 0
nt_tile_col(k, row_end) ==
    IF k < row_end THEN args.ldb * (args.csr_col_ind[k] - args.idx_base) ELSE 0

\* nt_tile_val with a one in place of the zero that pads the tile
nt_tile_val_pad1(k, row_end) == IF k < row_end THEN opA(args.csr_val[k]) ELSE <<1, 0>>

\* (k < row_end) ? csr_val[k] : 0, conjugated under conjugate-transpose
nt_tile_val(k, row_end) == IF k < row_end THEN opA(args.csr_val[k]) ELSE Zero

\* the two stores to shared memory between the barriers; I k = j + lid
nt_write(s) ==
    /\ launch.kernel = "nt"
    /\ wf[s].pc = "write"
    /\ LET r == wf[s]
           k(t) == r.j + nt_lid(s, t)
       IN  /\ shared_col' = WriteSlots(shared_col, s, [t \in Lanes |-> nt_lid(s, t)],
                  [t \in Lanes |-> nt_tile_col(k(t), r.row_end)])
           /\ shared_val' = WriteSlots(shared_val, s, [t \in Lanes |-> nt_lid(s, t)],
                  [t \in Lanes |-> nt_tile_val(k(t), r.row_end)])
    /\ wf' = [wf EXCEPT ![s].pc = "sync2"]
    /\ UNCHANGED <<args, C, launch, queue, snap, shared_B, todo, Cacc>>

\* for(J i = 0; i < WF_SIZE; ++i) { T val_B = (col < ncol) ? ldg(B + col + shared_col[wid][i]) : 0; sum = fma(..) }
RECURSIVE nt_dot(_, _, _, _, _)
nt_dot(s, t, l, i, sum) ==
    IF i < WFSIZE
    THEN LET val_B == IF nt_col(s, t, l) < launch.ncol
                      THEN launch.B[nt_col(s, t, l) + shared_col[BlockOf(s)][Wid(s, t)][i]]
                      ELSE Zero
         IN  nt_dot(s, t, l, i + 1,
                    rocsparse_fma(shared_val[BlockOf(s)][Wid(s, t)][i], opB(val_B), sum))
    ELSE sum

\* the scan of the buffered tile, then j += WF_SIZE and the test of the tile loop
nt_scan(s) ==
    /\ launch.kernel = "nt"
    /\ wf[s].pc = "scan"
    /\ LET r == wf[s]
           next == r.j + WFSIZE
       IN  wf' = [wf EXCEPT ![s] =
                    [r EXCEPT !.sum = [t \in Lanes |-> nt_dot(s, t, r.l, 0, r.sum[t])],
                              !.j = next,
                              !.pc = IF next < r.row_end THEN "sync1" ELSE "store"]]
    /\ UNCHANGED <<args, C, launch, queue, snap, shared_col, shared_val, shared_B, todo, Cacc>>

\* if(col < ncol) { ... } in every lane, then l += WF_SIZE and the loop test
nt_store(s) ==
    /\ launch.kernel = "nt"
    /\ wf[s].pc = "store"
    /\ LET act == {t \in Lanes : nt_col(s, t, wf[s].l) < launch.ncol}
           addr == [t \in Lanes |-> CAddr(wf[s].row, nt_col(s, t, wf[s].l))]
           op == [t \in Lanes |-> IF t \in act THEN store_op(addr[t], wf[s].sum[t])
                                  ELSE [val |-> Zero, read |-> FALSE]]
       IN  /\ C' = StoreLanes(C, act, addr, [t \in Lanes |-> op[t].val])
           /\ Cacc' = AccLanes(Cacc, act, addr, [t \in Lanes |-> op[t].read])
    /\ wf' = [wf EXCEPT ![s] =
                nt_tile(wf[s].row, wf[s].row_start, wf[s].row_end, wf[s].l + WFSIZE, launch.ncol)]
    /\ UNCHANGED <<args, launch, queue, snap, shared_col, shared_val, shared_B, todo>>

\* J row = gid / WF_SIZE; if(row >= M) return; then the reads of csr_row_ptr and the column loop
nt_begin(s, offset, ncol) ==
    LET row == Gid(s, 0) \div WFSIZE
    IN  IF row >= args.M THEN Exited
        ELSE nt_tile(row, args.csr_row_ptr[row] - args.idx_base,
                     args.csr_row_ptr[row + 1] - args.idx_base, offset, ncol)

-----------------------------------------------------------------------------
(* csrmm_scale_device *)

\* scale_gidx without hipThreadIdx_x
scale_gidx_nolane(w, t) == w[1] * WFSIZE

\* a wavefront of the scale kernel is <<wx, gidy>>: the WF_SIZE threads with
\* gidx = wx * WF_SIZE + t, t a lane, and the same gidy
scale_gidx(w, t) == w[1] * WFSIZE + t
scale_gidy(w) == w[2]

\* the threads that pass if(gidx >= m || gidy >= n) return
scale_act(w, m, n) == {t \in Lanes : ~(scale_gidx(w, t) >= m \/ scale_gidy(w) >= n)}

\* address of data[..] under the order flag
scale_addr(w, t) ==
    IF args.order = rocsparse_order_column
    THEN scale_gidx(w, t) + args.ldc * scale_gidy(w)
    ELSE scale_gidy(w) + args.ldc * scale_gidx(w, t)

\* scale_val that adds beta
scale_val_plus(a) == add(C[a], args.beta)

\* data[..] = data[..] * beta
scale_val(a) == mul(C[a], args.beta)

csrmm_scale_device(w) ==
    /\ launch.kernel = "scale"
    /\ w \in todo
    /\ LET act == scale_act(w, args.M, args.N)
           addr == [t \in Lanes |-> scale_addr(w, t)]
           val == [t \in Lanes |-> IF t \in act THEN scale_val(addr[t]) ELSE Zero]
       IN  /\ C' = StoreLanes(C, act, addr, val)
           /\ Cacc' = AccLanes(Cacc, act, addr, [t \in Lanes |-> TRUE])
    /\ todo' = todo \ {w}
    /\ UNCHANGED <<args, launch, queue, snap, wf, shared_col, shared_val, shared_B>>

-----------------------------------------------------------------------------
(* csrmmtn_general_device and csrmmtt_general_device *)

\* shared_B[wid][lid] = (cid < N) ? op(B[..]) : 0
tn_load(s) ==
    /\ launch.kernel \in {"tn", "tt"}
    /\ wf[s].pc = "load"
    /\ shared_B' = WriteSlots(shared_B, s, [t \in Lanes |-> Lid(s, t)],
           [t \in Lanes |->
               IF tn_cid(s, t) < args.N
               THEN opB(IF launch.kernel = "tn" THEN tn_B(wf[s].row, tn_cid(s, t))
                                                 ELSE tt_B(wf[s].row, tn_cid(s, t)))
               ELSE Zero])
    /\ wf' = [wf EXCEPT ![s].pc = "sync"]
    /\ UNCHANGED <<args, C, launch, queue, snap, shared_col, shared_val, todo, Cacc>>

\* tn_addr with the address computations of the two order flags exchanged
tn_addr_swap(s, col, i) ==
    IF args.order = rocsparse_order_column
    THEN col * args.ldc + (i + hipBlockIdx_y(s) * WFSIZE)
    ELSE col + (i + hipBlockIdx_y(s) * WFSIZE) * args.ldc

\* address of the atomic add of column i of the block: row col of C
tn_addr(s, col, i) ==
    IF args.order = rocsparse_order_column
    THEN col + (i + hipBlockIdx_y(s) * WFSIZE) * args.ldc
    ELSE col * args.ldc + (i + hipBlockIdx_y(s) * WFSIZE)

\* atomicAdd that stores v
atomicAdd_store(buf, a, v) == [buf EXCEPT ![a] = v]

\* atomicAdd(&C[a], v)
atomicAdd(buf, a, v) == [buf EXCEPT ![a] = add(@, v)]

\* the orders in which the lanes of a set can issue their accesses
RECURSIVE Orders_of(_)
Orders_of(act) ==
    IF act = {} THEN {<< >>}
    ELSE UNION {{<<t>> \o o : o \in Orders_of(act \ {t})} : t \in act}

\* the atomic adds of one statement, lane by lane in the order ord: lane t adds v[t] at addr[t]
RECURSIVE AddLanes(_, _, _, _)
AddLanes(buf, ord, addr, v) ==
    IF ord = << >> THEN buf
    ELSE AddLanes(atomicAdd(buf, addr[Head(ord)], v[Head(ord)]), Tail(ord), addr, v)

RECURSIVE AccAdds(_, _, _)
AccAdds(acc, ord, addr) ==
    IF ord = << >> THEN acc ELSE AccAdds(Added(acc, addr[Head(ord)]), Tail(ord), addr)

\* atomicAdd(&C[..], val * shared_B[wid][i]) in every lane that is in the nonzero loop; the
\* adds of the lanes reach memory in any order.  An add outside the C buffer is undefined:
\* it is recorded, not made, and the subgroup stops at "fault"
tn_atomicAdd(s, ord) ==
    /\ launch.kernel \in {"tn", "tt"}
    /\ wf[s].pc = "scatter"
    /\ tn_inner(s, wf[s].i)
    /\ tn_active(s, wf[s]) # {}
    /\ ord \in Orders_of(tn_active(s, wf[s]))
    /\ LET r == wf[s]
           j(t) == r.j + Lid(s, t)
           col(t) == args.csr_col_ind[j(t)] - args.idx_base
           val(t) == mul(args.alpha, opA(args.csr_val[j(t)]))
           addr == [t \in Lanes |-> IF t \in tn_active(s, r) THEN tn_addr(s, col(t), r.i) ELSE 0]
           v == [t \in Lanes |-> IF t \in tn_active(s, r)
                                 THEN mul(val(t), shared_B[BlockOf(s)][Wid(s, t)][r.i]) ELSE Zero]
           inside == \A t \in tn_active(s, r) : addr[t] \in DOMAIN C
           scat == {<<j(t), r.i + hipBlockIdx_y(s) * WFSIZE, addr[t], v[t]>> : t \in tn_active(s, r)}
       IN  /\ C' = IF inside THEN AddLanes(C, ord, addr, v) ELSE C
           /\ Cacc' = [(IF inside THEN AccAdds(Cacc, ord, addr) ELSE Cacc) EXCEPT
                          !.scat = @ \cup scat]
           /\ wf' = [wf EXCEPT ![s] = IF inside THEN tn_step(s, r) ELSE [r EXCEPT !.pc = "fault"]]
    /\ UNCHANGED <<args, launch, queue, snap, shared_col, shared_val, shared_B, todo>>

-----------------------------------------------------------------------------
(* the host: launches of a host program, one after the other, each run to completion *)

IdleLaunch == [kernel |-> "idle"]

KernelOf(item) ==
    CASE item \in {"nn", "nn_again"} -> "nn"
      [] item \in {"nt_T", "nt", "nt_again"} -> "nt"
      [] item \in {"tn", "tn_scaled"} -> "tn"
      [] item = "tt_T_scaled" -> "tt"
      [] OTHER -> "scale"

\* launches that start from the result of the launch before them; the others start from C_old
Continues(item) == item \in {"nn_again", "nt_again", "tn_scaled", "tt_T_scaled"}

\* the contents of C a launch starts from
StartC(item) ==
    IF item = "tt_T_scaled" THEN snap["scale"].C
    ELSE IF Continues(item) THEN C ELSE args.C_old

\* launches that are given the transposed B buffer
OnTransposedB(item) == item \in {"nt_T", "tt_T_scaled"}

\* grids of scale, in wavefronts: one more than needed to cover m, or one more than covers n;
\* grids of nn, tn and tt: any hipGridDim_x, and the hipGridDim_y blocks of WF_SIZE columns
\* that cover N; of nt: any hipGridDim_x that gives every row a subgroup
Grids(k) ==
    IF k = "nt"
    THEN {<<gx, 1>> : gx \in {g \in 1 .. MaxBlocks : (g * BLOCKSIZE) \div WFSIZE >= args.M}}
    ELSE IF k = "scale"
    THEN {<<CeilDiv(args.M, WFSIZE) + 1, args.N>>, <<CeilDiv(args.M, WFSIZE), args.N + 1>>}
    ELSE {g \in (1 .. MaxBlocks) \X {CeilDiv(args.N, WFSIZE)} : g[1] * g[2] <= MaxBlocks}

\* column ranges [offset, ncol) of nt: all N columns, or all but the first or the last one
Ranges(item) ==
    IF item = "nt"
    THEN {rg \in {<<0, args.N>>, <<1, args.N>>, <<0, args.N - 1>>} : rg[1] < rg[2]}
    ELSE IF item = "nt_again" THEN {<<snap["nt"].offset, snap["nt"].ncol>>}
    ELSE {<<0, args.N>>}

Launch(item, g, rg) ==
    /\ launch.kernel = "idle"
    /\ queue # << >>
    /\ item = Head(queue)
    /\ g \in Grids(KernelOf(item))
    /\ rg \in Ranges(item)
    /\ launch' = [kernel |-> KernelOf(item), item |-> item, gridDim_x |-> g[1], gridDim_y |-> g[2],
                  offset |-> rg[1], ncol |-> rg[2],
                  B |-> IF OnTransposedB(item) THEN TransposedBuf(args.B, args.ldb) ELSE args.B,
                  C_start |-> StartC(item)]
    /\ C' = StartC(item)
    /\ queue' = Tail(queue)
    /\ IF KernelOf(item) = "scale"
       THEN /\ wf' = << >>
            /\ todo' = (0 .. (g[1] - 1)) \X (0 .. (g[2] - 1))
            /\ UNCHANGED <<shared_col, shared_val, shared_B>>
       ELSE /\ wf' = [s \in Subgroups(g[1], g[2]) |->
                        CASE KernelOf(item) = "nn" -> nn_row(FirstRow(s))
                          [] KernelOf(item) = "nt" -> nt_begin(s, rg[1], rg[2])
                          [] OTHER -> tn_row(FirstRow(s))]
            /\ shared_col' = [b \in Blocks(g[1], g[2]) |-> [w \in Wids |-> [i \in Lanes |-> 1000]]]
            /\ shared_val' = [b \in Blocks(g[1], g[2]) |-> [w \in Wids |-> [i \in Lanes |-> Poison]]]
            /\ shared_B' = [b \in Blocks(g[1], g[2]) |-> [w \in Wids |-> [i \in Lanes |-> Poison]]]
            /\ todo' = {}
    /\ Cacc' = NoAccess
    /\ UNCHANGED <<args, snap>>

\* the launch is complete when every thread has left the kernel
Complete ==
    /\ launch.kernel # "idle"
    /\ \A s \in DOMAIN wf : wf[s].pc = "done"
    /\ todo = {}
    /\ snap' = (launch.item :> [C |-> C, offset |-> launch.offset, ncol |-> launch.ncol,
                                start |-> launch.C_start]) @@ snap
    /\ launch' = IdleLaunch
    /\ wf' = << >>
    /\ shared_col' = << >>
    /\ shared_val' = << >>
    /\ shared_B' = << >>
    /\ UNCHANGED <<args, C, queue, todo, Cacc>>

-----------------------------------------------------------------------------
(* initial states *)

Orders == {rocsparse_order_column, rocsparse_order_row}
Bases == {0, 1}
Betas == {<<0, 0>>, <<1, 0>>, <<2, 0>>}
Alphas == {<<3, 0>>}

\* the arguments of the row-parallel kernels: A is M by K, stored with M rows
RowArgs(len, N, order, base, alpha, beta, tA, tB) ==
    LET M == Len(len)
        K == MaxCols
        ldb == (IF K > N THEN K ELSE N) + MaxPad
        ldc == (IF order = rocsparse_order_column THEN M ELSE N) + MaxPad
        csize == ldc * (IF order = rocsparse_order_column THEN N ELSE M)
    IN  [trans_A |-> tA, trans_B |-> tB, M |-> M, N |-> N, K |-> K,
         nnz |-> PrefixSum(len, M), alpha |-> alpha,
         csr_row_ptr |-> CsrRowPtr(len, base), csr_col_ind |-> CsrColInd(len, K, base),
         csr_val |-> CsrVal(len), B |-> DenseBuf(ldb * ldb, 1), ldb |-> ldb, beta |-> beta,
         C_old |-> DenseBuf(csize, 2), ldc |-> ldc, order |-> order, idx_base |-> base]

RowProgram(beta) ==
    IF beta = Zero THEN <<"nn", "nn_again", "nt_T", "nt", "nt_again">>
    ELSE <<"nn", "nt_T", "nt">>

InitRow ==
    \E m \in 1 .. MaxRows, N \in 1 .. MaxN, order \in Orders, base \in Bases,
       alpha \in Alphas, beta \in Betas :
      \E len \in RowLens(m) :
        /\ PrefixSum(len, m) <= MaxNnz
        /\ args = RowArgs(len, N, order, base, alpha, beta,
                          rocsparse_operation_none, rocsparse_operation_none)
        /\ queue = RowProgram(beta)

\* the arguments of the transposed-A kernels: A is stored with K rows, its column indices
\* are rows of C
AtomicArgs(len, N, order, base, alpha, beta, tA, tB) ==
    LET K == Len(len)
        M == MaxCols
        ldb == (IF K > N THEN K ELSE N) + MaxPad
        ldc == (IF order = rocsparse_order_column THEN M ELSE N) + MaxPad
        csize == ldc * (IF order = rocsparse_order_column THEN N ELSE M)
    IN  [trans_A |-> tA, trans_B |-> tB, M |-> M, N |-> N, K |-> K,
         nnz |-> PrefixSum(len, K), alpha |-> alpha,
         csr_row_ptr |-> CsrRowPtr(len, base), csr_col_ind |-> CsrColInd(len, M, base),
         csr_val |-> CsrVal(len), B |-> DenseBuf(ldb * ldb, 1), ldb |-> ldb, beta |-> beta,
         C_old |-> DenseBuf(csize, 2), ldc |-> ldc, order |-> order, idx_base |-> base]

\* tn on its own, and tn and tt after the scale kernel
AtomicProgram(beta) ==
    IF beta \in {<<0, 0>>, <<1, 0>>} THEN <<"tn", "scale", "tn_scaled", "tt_T_scaled">>
    ELSE <<"scale", "tn_scaled", "tt_T_scaled">>

InitAtomic ==
    \E k \in 1 .. MaxRows, N \in 1 .. MaxN, order \in Orders, base \in Bases,
       alpha \in Alphas, beta \in Betas :
      \E len \in RowLens(k) :
        /\ PrefixSum(len, k) <= MaxNnz
        /\ args = AtomicArgs(len, N, order, base, alpha, beta,
                             rocsparse_operation_transpose, rocsparse_operation_none)
        /\ queue = AtomicProgram(beta)

Idle ==
    /\ C = args.C_old
    /\ launch = IdleLaunch
    /\ snap = << >>
    /\ wf = << >>
    /\ shared_col = << >>
    /\ shared_val = << >>
    /\ shared_B = << >>
    /\ todo = {}
    /\ Cacc = NoAccess

InitA == InitAtomic /\ Idle

Init == InitRow /\ Idle

Next ==
    \/ \E item \in {"nn", "nn_again", "nt_T", "nt", "nt_again"},
          g \in (1 .. MaxBlocks) \X (1 .. MaxBlocks), rg \in (0 .. MaxN) \X (0 .. MaxN) :
            Launch(item, g, rg)
    \/ Complete
    \/ \E b \in Blocks(MaxBlocks, MaxBlocks) : syncthreads(b)
    \/ \E s \in DOMAIN wf : nn_write(s)
    \/ \E s \in DOMAIN wf : nn_scan(s)
    \/ \E s \in DOMAIN wf : nn_store(s)
    \/ \E s \in DOMAIN wf : nt_write(s)
    \/ \E s \in DOMAIN wf : nt_scan(s)
    \/ \E s \in DOMAIN wf : nt_store(s)

Spec == Init /\ [][Next]_vars

\* the two families of host programs together; the inputs of InitLive are those that decide
\* the control flow: matrix shape, N, beta (through the host program), grid and column range
InitLive ==
    /\ \E m \in 1 .. MaxRows, N \in 1 .. MaxN, beta \in {Zero, <<2, 0>>}, alpha \in Alphas :
         \E len \in RowLens(m) :
           /\ PrefixSum(len, m) <= MaxNnz
           /\ \/ /\ args = RowArgs(len, N, rocsparse_order_column, 0, alpha, beta,
                                   rocsparse_operation_none, rocsparse_operation_none)
                 /\ queue = <<"nn", "nt">>
              \/ /\ args = AtomicArgs(len, N, rocsparse_order_column, 0, alpha, beta,
                                      rocsparse_operation_transpose, rocsparse_operation_none)
                 /\ queue = <<"scale", "tn_scaled", "tt_T_scaled">>
    /\ Idle

NextLive ==
    \/ \E item \in {"nn", "nt", "scale", "tn_scaled", "tt_T_scaled"},
          g \in (1 .. (MaxBlocks + MaxCols)) \X (1 .. (MaxN + 1)),
          rg \in (0 .. MaxN) \X (0 .. MaxN) : Launch(item, g, rg)
    \/ Complete
    \/ \E b \in Blocks(MaxBlocks, MaxBlocks) : syncthreads(b)
    \/ \E s \in DOMAIN wf : nn_write(s)
    \/ \E s \in DOMAIN wf : nn_scan(s)
    \/ \E s \in DOMAIN wf : nn_store(s)
    \/ \E s \in DOMAIN wf : nt_write(s)
    \/ \E s \in DOMAIN wf : nt_scan(s)
    \/ \E s \in DOMAIN wf : nt_store(s)
    \/ \E w \in todo : csrmm_scale_device(w)
    \/ \E s \in DOMAIN wf : tn_load(s)
    \/ \E s \in DOMAIN wf, ord \in Orders_of(Lanes) \cup {<<t>> : t \in Lanes} : tn_atomicAdd(s, ord)

\* every launched kernel is scheduled until all its threads have left it
SpecLive == InitLive /\ [][NextLive]_vars /\ WF_vars(NextLive)

NextA ==
    \/ \E item \in {"tn", "scale", "tn_scaled", "tt_T_scaled"},
          g \in (1 .. (MaxBlocks + MaxCols)) \X (1 .. (MaxN + 1)) : Launch(item, g, <<0, args.N>>)
    \/ Complete
    \/ \E b \in Blocks(MaxBlocks, MaxBlocks) : syncthreads(b)
    \/ \E w \in todo : csrmm_scale_device(w)
    \/ \E s \in DOMAIN wf : tn_load(s)
    \/ \E s \in DOMAIN wf, ord \in Orders_of(Lanes) \cup {<<t>> : t \in Lanes} : tn_atomicAdd(s, ord)

SpecA == InitA /\ [][NextA]_vars

\* the transposed-A kernels on a matrix A given in either of two ways: stored with K rows and
\* column indices below M (the rows the kernels loop over, the rows of C they add to), or
\* stored with M rows and column indices below K
InitD ==
    /\ \E r \in 1 .. MaxRows, N \in 1 .. MaxN, order \in Orders, alpha \in Alphas :
         \E len \in RowLens(r) :
           /\ PrefixSum(len, r) <= MaxNnz
           /\ \/ args = AtomicArgs(len, N, order, 0, alpha, <<2, 0>>,
                                   rocsparse_operation_transpose, rocsparse_operation_none)
              \/ args = RowArgs(len, N, order, 0, alpha, <<2, 0>>,
                                rocsparse_operation_transpose, rocsparse_operation_none)
           /\ queue = <<"scale", "tn_scaled", "tt_T_scaled">>
    /\ Idle

SpecD == InitD /\ [][NextA]_vars

\* pairs <<trans_A, trans_B>>: each operand meets each of the three modes
Operations ==
    {<<rocsparse_operation_none, rocsparse_operation_none>>,
     <<rocsparse_operation_transpose, rocsparse_operation_conjugate_transpose>>,
     <<rocsparse_operation_conjugate_transpose, rocsparse_operation_transpose>>,
     <<rocsparse_operation_conjugate_transpose, rocsparse_operation_conjugate_transpose>>}

\* the four product kernels under every transpose mode of each operand and both index bases
InitF ==
    /\ \E r \in 1 .. MaxRows, N \in 1 .. MaxN, base \in Bases, alpha \in Alphas, op \in Operations :
         \E len \in RowLens(r) :
           /\ PrefixSum(len, r) <= MaxNnz
           /\ \/ /\ args = RowArgs(len, N, rocsparse_order_column, base, alpha, <<2, 0>>, op[1], op[2])
                 /\ queue = <<"nn", "nt">>
              \/ /\ args = AtomicArgs(len, N, rocsparse_order_column, base, alpha, <<2, 0>>, op[1], op[2])
                 /\ queue = <<"scale", "tn_scaled", "tt_T_scaled">>
    /\ Idle

SpecF == InitF /\ [][NextLive]_vars

-----------------------------------------------------------------------------
(* the reference product *)

\* every thread of the running launch has left the kernel
Finished ==
    /\ launch.kernel # "idle"
    /\ \A s \in DOMAIN wf : wf[s].pc = "done"
    /\ todo = {}

RowStart(r) == args.csr_row_ptr[r] - args.idx_base
RowEnd(r) == args.csr_row_ptr[r + 1] - args.idx_base

\* the stored row that holds nonzero k
RowOf(k) ==
    CHOOSE r \in 0 .. (Cardinality(DOMAIN args.csr_row_ptr) - 2) : RowStart(r) <= k /\ k < RowEnd(r)

StoredCol(k) == args.csr_col_ind[k] - args.idx_base

\* sum over the nonzeros (k, a) of row `row` of a * B[k + col * ldb]
RefNN(row, col) ==
    SumRange([k \in RowStart(row) .. (RowEnd(row) - 1) |->
                 mul(opA(args.csr_val[k]), opB(launch.B[StoredCol(k) + col * args.ldb]))],
             RowStart(row), RowEnd(row))

\* sum over the nonzeros (k, a) of row `row` of a * B[col + ldb * k]
RefNT(row, col) ==
    SumRange([k \in RowStart(row) .. (RowEnd(row) - 1) |->
                 mul(opA(args.csr_val[k]), opB(launch.B[col + args.ldb * StoredCol(k)]))],
             RowStart(row), RowEnd(row))

\* element (r, n) of B as the running transposed-A kernel addresses it
LogicalB(r, n) ==
    IF launch.kernel = "tn" THEN launch.B[r + n * args.ldb] ELSE launch.B[args.ldb * r + n]

\* sum over the stored rows r and the nonzeros (c, a) of row r of a * B(r, n)
RefT(c, n) ==
    SumRange([k \in 0 .. (args.nnz - 1) |->
                 IF StoredCol(k) = c THEN mul(opA(args.csr_val[k]), opB(LogicalB(RowOf(k), n)))
                 ELSE Zero],
             0, args.nnz)

\* beta * old + alpha * ref
Combined(old, ref) == add(mul(args.beta, old), mul(args.alpha, ref))

-----------------------------------------------------------------------------
(* properties *)

Rows == 0 .. (args.M - 1)
Cols == 0 .. (args.N - 1)

\* C1: when all lanes of csrmmnn_general_device have finished, every element C[row, col]
\* with row < M and col < N equals beta * C_old[row, col] + alpha * (sum over the nonzeros
\* (k, a) of the row of a * B[k + col * ldb]), for every grid, order flag and index base
C1_nn_reference ==
    (Finished /\ launch.kernel = "nn") =>
        \A row \in Rows, col \in Cols :
            C[CAddr(row, col)] = Combined(launch.C_start[CAddr(row, col)], RefNN(row, col))

\* a finished nn launch with a subgroup that took several rows, a row whose nonzero count is
\* not a multiple of WF_SIZE, N not a multiple of WF_SIZE and beta # 0
C1_witness ==
    /\ Finished
    /\ launch.kernel = "nn"
    /\ args.M > Nwf
    /\ args.N % WFSIZE # 0
    /\ \E row \in Rows : (RowEnd(row) - RowStart(row)) % WFSIZE # 0
    /\ args.beta # Zero

\* C2: when all lanes of csrmmnt_general_device have finished, every element C[row, col]
\* with row < M and offset <= col < ncol equals beta * C_old[row, col] + alpha * (sum over
\* the nonzeros (k, a) of the row of a * B[col + ldb * k])
C2_nt_reference ==
    (Finished /\ launch.kernel = "nt") =>
        \A row \in Rows, col \in launch.offset .. (launch.ncol - 1) :
            C[CAddr(row, col)] = Combined(launch.C_start[CAddr(row, col)], RefNT(row, col))

\* a finished nt launch over all N columns, N not a multiple of WF_SIZE, with a row of more
\* than WF_SIZE nonzeros and beta # 0
C2_witness ==
    /\ Finished
    /\ launch.kernel = "nt"
    /\ launch.offset = 0 /\ launch.ncol = args.N
    /\ args.N % WFSIZE # 0 /\ args.N > WFSIZE
    /\ \E row \in Rows : RowEnd(row) - RowStart(row) > WFSIZE
    /\ args.beta # Zero

\* C3: after csrmm_scale_device has run over all of C and csrmmtn_general_device (or
\* csrmmtt_general_device) has then run to completion, every element C[c, n] equals
\* beta * C_old[c, n] + alpha * (sum over the stored rows r and the nonzeros (c, a) of row r
\* of a * B(r, n)), for every beta
C3_scale_then_atomic ==
    (Finished /\ launch.item \in {"tn_scaled", "tt_T_scaled"}) =>
        \A c \in Rows, n \in Cols :
            C[CAddr(c, n)] = Combined(args.C_old[CAddr(c, n)], RefT(c, n))

\* a finished tt launch after the scale kernel, beta neither 0 nor 1, with two stored rows
\* that have a nonzero in the same column
C3_witness ==
    /\ Finished
    /\ launch.item = "tt_T_scaled"
    /\ args.beta \notin {Zero, <<1, 0>>}
    /\ \E k1, k2 \in 0 .. (args.nnz - 1) : RowOf(k1) # RowOf(k2) /\ StoredCol(k1) = StoredCol(k2)

\* C4: with beta zero csrmmnn_general_device and csrmmnt_general_device read no element of C,
\* and every element they have written holds alpha * sum, which does not depend on the
\* initial contents of C
C4_zero_beta_no_read ==
    (launch.kernel \in {"nn", "nt"} /\ args.beta = Zero) =>
        /\ Cacc.reads = {}
        /\ \A row \in Rows, col \in Cols :
              Cacc.stores[CAddr(row, col)] > 0 =>
                  C[CAddr(row, col)] =
                      mul(args.alpha, IF launch.kernel = "nn" THEN RefNN(row, col)
                                                               ELSE RefNT(row, col))

\* a finished nn launch with beta zero that has written a nonzero sum over an initial C
\* that is nonzero
C4_witness ==
    /\ Finished
    /\ launch.kernel = "nn"
    /\ args.beta = Zero
    /\ \E row \in Rows, col \in Cols :
          /\ Cacc.stores[CAddr(row, col)] > 0
          /\ RefNN(row, col) # Zero
          /\ launch.C_start[CAddr(row, col)] # Zero

\* C5: with beta zero the final C of csrmmtn_general_device and csrmmtt_general_device is
\* alpha * op(A) * op(B) whatever C held before the invocation
C5_as_claimed ==
    (Finished /\ launch.kernel \in {"tn", "tt"} /\ args.beta = Zero) =>
        \A c \in Rows, n \in Cols : C[CAddr(c, n)] = mul(args.alpha, RefT(c, n))

\* every launch of the host program has completed
AllComplete == launch.kernel = "idle" /\ queue = << >>

\* C6: under fair scheduling every launch of csrmmnn, csrmmnt, csrmmtn, csrmmtt and
\* csrmm_scale runs to completion: every thread leaves the kernel, none waits at a barrier
\* for ever
C6_termination == <>AllComplete

\* an nt launch in which a subgroup returned at if(row >= M) and another subgroup of its
\* block has passed both barriers of a tile
C6_witness ==
    /\ launch.kernel = "nt"
    /\ \E s1, s2 \in DOMAIN wf :
          /\ BlockOf(s1) = BlockOf(s2)
          /\ FirstRow(s1) >= args.M
          /\ wf[s2].pc = "scan"

\* C7: with beta zero a second invocation of csrmmnn_general_device (csrmmnt_general_device)
\* with the same inputs on the result of the first one leaves C as the first one left it,
\* whatever the interleavings and grids of the two invocations: every element written is
\* alpha * sum, a function of the inputs alone
C7_second_run_same ==
    (Finished /\ launch.item \in {"nn_again", "nt_again"}) =>
        /\ args.beta = Zero
        /\ C = launch.C_start
        /\ \A row \in Rows :
              \A col \in (IF launch.kernel = "nt" THEN launch.offset .. (launch.ncol - 1) ELSE Cols) :
                  C[CAddr(row, col)] =
                      mul(args.alpha, IF launch.kernel = "nn" THEN RefNN(row, col)
                                                               ELSE RefNT(row, col))

\* a finished second invocation whose first invocation has changed an element of C
C7_witness ==
    /\ Finished
    /\ launch.item \in {"nn_again", "nt_again"}
    /\ \E a \in DOMAIN C : Cacc.stores[a] > 0 /\ C[a] # args.C_old[a]

\* number of nonzeros with stored column c
NnzInCol(c) == Cardinality({k \in 0 .. (args.nnz - 1) : StoredCol(k) = c})

\* C8: whatever the grid and the order of the atomic adds, csrmmtn_general_device and
\* csrmmtt_general_device end with the same C: every element has received every
\* contribution once, none is lost, and nothing else has changed
C8_order_independent ==
    (Finished /\ launch.kernel \in {"tn", "tt"}) =>
        /\ \A c \in Rows, n \in Cols :
              /\ Cacc.adds[CAddr(c, n)] = NnzInCol(c)
              /\ C[CAddr(c, n)] = add(launch.C_start[CAddr(c, n)], mul(args.alpha, RefT(c, n)))
        /\ \A a \in DOMAIN C : Cacc.adds[a] = 0 => C[a] = launch.C_start[a]

\* a finished tn launch on two blocks in which an element of C has received contributions
\* of two stored rows
C8_witness ==
    /\ Finished
    /\ launch.kernel = "tn"
    /\ launch.gridDim_x > 1
    /\ \E k1, k2 \in 0 .. (args.nnz - 1) : RowOf(k1) # RowOf(k2) /\ StoredCol(k1) = StoredCol(k2)

EmptyRows == {row \in Rows : RowStart(row) = RowEnd(row)}

\* the columns a launch of nn or nt covers
Covered == IF launch.kernel = "nt" THEN launch.offset .. (launch.ncol - 1) ELSE Cols

\* C9: for a row of A without nonzeros csrmmnn_general_device and csrmmnt_general_device
\* leave beta * C_old in every element of the output row in the columns they cover (all
\* columns below N for nn, offset <= col < ncol for nt) and do not change the others
C9_empty_rows ==
    (Finished /\ launch.kernel \in {"nn", "nt"}) =>
        \A row \in EmptyRows, col \in Cols :
            C[CAddr(row, col)] =
                IF col \in Covered THEN mul(args.beta, launch.C_start[CAddr(row, col)])
                ELSE launch.C_start[CAddr(row, col)]

\* C9 as claimed: every element of the output row of a row without nonzeros is
\* beta * C_old
C9_as_claimed ==
    (Finished /\ launch.kernel \in {"nn", "nt"}) =>
        \A row \in EmptyRows, col \in Cols :
            C[CAddr(row, col)] = mul(args.beta, launch.C_start[CAddr(row, col)])

\* a finished nt launch on a matrix with an empty row and a nonempty one, beta neither 0 nor 1
C9_witness ==
    /\ Finished
    /\ launch.kernel = "nt"
    /\ EmptyRows # {} /\ EmptyRows # Rows
    /\ args.beta \notin {Zero, <<1, 0>>}

\* C10: csrmmnt_general_device over all N columns, given the buffer that holds at
\* [col + ldb * k] what B holds at [k + col * ldb], ends with the C that
\* csrmmnn_general_device ends with on B, all other arguments being the same
C10_nt_on_transposed ==
    (Finished /\ launch.item = "nt_T") => C = snap["nn"].C

\* C10 as claimed: given the same B buffer, nt over all N columns ends with the C of nn
C10_as_claimed ==
    (Finished /\ launch.item = "nt" /\ launch.offset = 0 /\ launch.ncol = args.N) =>
        C = snap["nn"].C

\* a finished nt launch on the transposed buffer whose product is not zero
C10_witness ==
    /\ Finished
    /\ launch.item = "nt_T"
    /\ \E row \in Rows, col \in Cols : RefNT(row, col) # Zero

\* C11: in a launch of csrmmnn_general_device or csrmmnt_general_device no element of C is
\* stored more than once, an element is read only by the lane that stores it, and at the end
\* every element C[row, col] with row < M and col in the columns of the launch has been
\* stored exactly once
C11_single_writer ==
    launch.kernel \in {"nn", "nt"} =>
        /\ \A a \in DOMAIN C : Cacc.stores[a] <= 1
        /\ \A a \in Cacc.reads : Cacc.stores[a] = 1
        /\ Finished => \A row \in Rows, col \in Covered : Cacc.stores[CAddr(row, col)] = 1

\* a finished nn launch with two blocks of columns, a subgroup that took several rows and
\* beta # 0
C11_witness ==
    /\ Finished
    /\ launch.kernel = "nn"
    /\ launch.gridDim_y > 1
    /\ args.M > Nwf
    /\ args.beta # Zero
    /\ Cacc.reads # {}

\* C12: whenever a subgroup of csrmmnn_general_device or csrmmnt_general_device is between
\* its stores to the tile and the end of its scan, slot i of its row of shared_col and
\* shared_val holds entry j + i of its own row of A (stored column less the index base, times
\* ldb in nt; value, conjugated under conjugate-transpose), or column 0 and value 0 when
\* j + i >= row_end
C12_tile_consistent ==
    \A s \in DOMAIN wf :
        (launch.kernel \in {"nn", "nt"} /\ wf[s].pc \in {"sync2", "scan"}) =>
            /\ wf[s].row_start = args.csr_row_ptr[wf[s].row] - args.idx_base
            /\ wf[s].row_end = args.csr_row_ptr[wf[s].row + 1] - args.idx_base
            /\ wf[s].row_start <= wf[s].j /\ wf[s].j < wf[s].row_end
            /\ \A i \in Lanes :
                  LET k == wf[s].j + i
                      col == args.csr_col_ind[k] - args.idx_base
                  IN  IF k < wf[s].row_end
                      THEN /\ shared_col[BlockOf(s)][s[3]][i] =
                                  IF launch.kernel = "nn" THEN col ELSE args.ldb * col
                           /\ shared_val[BlockOf(s)][s[3]][i] =
                                  IF args.trans_A = rocsparse_operation_conjugate_transpose
                                  THEN rocsparse_conj(args.csr_val[k]) ELSE args.csr_val[k]
                      ELSE /\ shared_col[BlockOf(s)][s[3]][i] = 0
                           /\ shared_val[BlockOf(s)][s[3]][i] = Zero

\* two subgroups of one block that both hold a tile, one of them a tile with padding
C12_witness ==
    \E s1, s2 \in DOMAIN wf :
        /\ s1 # s2
        /\ BlockOf(s1) = BlockOf(s2)
        /\ wf[s1].pc = "scan"
        /\ wf[s2].pc \in {"sync2", "scan"}
        /\ wf[s1].j + WFSIZE > wf[s1].row_end

\* addresses of the elements C[row, col] with row < M and col in the columns of the launch
CoveredAddrs ==
    {IF args.order = rocsparse_order_column THEN row + col * args.ldc ELSE row * args.ldc + col :
         row \in Rows, col \in Covered}

\* C16: in a launch of csrmmnn_general_device (csrmmnt_general_device) every location of the
\* C buffer other than the elements C[row, col] with row < M and col < N (offset <= col <
\* ncol), the padding of the leading dimension included, is never stored to and holds what
\* it held before the launch
C16_frame ==
    launch.kernel \in {"nn", "nt"} =>
        \A a \in DOMAIN C \ CoveredAddrs :
            /\ Cacc.stores[a] = 0
            /\ C[a] = launch.C_start[a]

\* a finished nt launch on the columns from 1 with a subgroup whose row is >= M, which has
\* changed an element of C
C16_witness ==
    /\ Finished
    /\ launch.kernel = "nt"
    /\ launch.offset = 1
    /\ \E s \in DOMAIN wf : FirstRow(s) >= args.M
    /\ \E a \in DOMAIN C : C[a] # launch.C_start[a]

\* C13: whenever a subgroup of csrmmtn_general_device or csrmmtt_general_device is between
\* its store to shared_B and the end of the nonzero loop of source row r, slot i of its row
\* of shared_B holds op(B)(r, i + hipBlockIdx_y * WF_SIZE), or zero when that column is not
\* below N: the value written in the iteration for row r
C13_shared_B_row ==
    \A s \in DOMAIN wf :
        (launch.kernel \in {"tn", "tt"} /\ wf[s].pc \in {"sync", "scatter"}) =>
            /\ wf[s].row < args.K
            /\ \A i \in Lanes :
                  LET n == i + s[2] * WFSIZE
                      b == IF launch.kernel = "tn" THEN launch.B[wf[s].row + n * args.ldb]
                                                   ELSE launch.B[args.ldb * wf[s].row + n]
                  IN  shared_B[BlockOf(s)][s[3]][i] =
                          IF n < args.N
                          THEN IF args.trans_B = rocsparse_operation_conjugate_transpose
                               THEN rocsparse_conj(b) ELSE b
                          ELSE Zero

\* a subgroup in the nonzero loop of its second source row with a lane that has no nonzero
\* there, in a launch with two blocks of columns
C13_witness ==
    /\ launch.kernel \in {"tn", "tt"}
    /\ launch.gridDim_y > 1
    /\ \E s \in DOMAIN wf :
          /\ wf[s].pc = "scatter"
          /\ wf[s].row > FirstRow(s)
          /\ wf[s].row_end - wf[s].j < WFSIZE

\* C14: in a launch of csrmmtn_general_device or csrmmtt_general_device every atomic add is
\* the add of alpha * op(val[j]) * op(B)(r, n) to C[col_ind[j] - idx_base, n] for a nonzero j
\* of a stored row r and a column n < N, no pair (j, n) is added twice, C is neither stored to
\* nor read otherwise, and at the end every pair (j, n) with j < nnz and n < N has been added
C14_exactly_once ==
    launch.kernel \in {"tn", "tt"} =>
        /\ \A x \in Cacc.scat :
              /\ x[1] \in 0 .. (args.nnz - 1)
              /\ x[2] \in Cols
              /\ x[3] = CAddr(StoredCol(x[1]), x[2])
              /\ x[4] = mul(mul(args.alpha, opA(args.csr_val[x[1]])), opB(LogicalB(RowOf(x[1]), x[2])))
        /\ \A a \in DOMAIN C :
              /\ Cacc.adds[a] = Cardinality({x \in Cacc.scat : x[3] = a})
              /\ Cacc.stores[a] = 0
        /\ Cacc.reads = {}
        /\ Finished => {<<x[1], x[2]>> : x \in Cacc.scat} = (0 .. (args.nnz - 1)) \X Cols

\* a finished tn launch with a stored row of more than WF_SIZE nonzeros and a lane whose own
\* column is not below N
C14_witness ==
    /\ Finished
    /\ launch.kernel = "tn"
    /\ args.N % WFSIZE # 0
    /\ \E r \in 0 .. (args.K - 1) : RowEnd(r) - RowStart(r) > WFSIZE

\* C17: in a launch of csrmm_scale_device whose threads cover m by n no location of the
\* buffer is stored to more than once, a location that has been stored to holds beta times
\* its old value and every other one its old value, no location outside the m by n elements
\* is stored to, and at the end every element (i, j) with i < m and j < n has been stored to
C17_scale ==
    launch.kernel = "scale" =>
        /\ \A a \in DOMAIN C :
              /\ Cacc.stores[a] <= 1
              /\ C[a] = IF Cacc.stores[a] = 1 THEN mul(args.beta, launch.C_start[a])
                        ELSE launch.C_start[a]
        /\ \A a \in DOMAIN C \ CoveredAddrs : Cacc.stores[a] = 0
        /\ Finished => \A a \in CoveredAddrs : Cacc.stores[a] = 1

\* a finished scale launch in row order with threads whose gidx is not below m, beta neither
\* 0 nor 1
C17_witness ==
    /\ Finished
    /\ launch.kernel = "scale"
    /\ launch.gridDim_x * WFSIZE > args.M
    /\ args.order = rocsparse_order_row
    /\ args.beta \notin {Zero, <<1, 0>>}

\* C18: csrmmtt_general_device on the buffer that holds at [ldb * r + n] what B holds at
\* [r + n * ldb] ends with the C that csrmmtn_general_device ends with on B, from the same
\* initial C and with all other arguments the same, whatever the grids of the two launches
C18_tt_equals_tn ==
    (Finished /\ launch.item = "tt_T_scaled") =>
        /\ launch.C_start = snap["tn_scaled"].start
        /\ C = snap["tn_scaled"].C

\* a finished tt launch on a transposed buffer that differs from B, with a nonzero product
C18_witness ==
    /\ Finished
    /\ launch.item = "tt_T_scaled"
    /\ launch.B # args.B
    /\ \E c \in Rows, n \in Cols : RefT(c, n) # Zero

\* C15: for inputs with csr_row_ptr of length K + 1 and every column index less the index
\* base in [0, M), csrmmtn_general_device and csrmmtt_general_device read csr_row_ptr only at
\* indices in [0, K] and csr_col_ind and csr_val only at indices in [0, nnz), and every
\* atomic add goes to an element of C with row in [0, M) and column in [0, N)
C15_memory_safe ==
    (/\ launch.kernel \in {"tn", "tt"}
     /\ Cardinality(DOMAIN args.csr_row_ptr) = args.K + 1
     /\ \A k \in DOMAIN args.csr_col_ind : args.csr_col_ind[k] - args.idx_base \in 0 .. (args.M - 1)) =>
        /\ \A s \in DOMAIN wf :
              /\ wf[s].pc # "fault"
              /\ wf[s].pc # "done" => wf[s].row + 1 <= args.K
              /\ wf[s].pc = "scatter" =>
                    \A t \in tn_active(s, wf[s]) : wf[s].j + Lid(s, t) \in 0 .. (args.nnz - 1)
        /\ \A x \in Cacc.scat : x[1] \in 0 .. (args.nnz - 1) /\ x[3] \in CoveredAddrs

\* C15 as claimed: for inputs with csr_row_ptr of length M + 1 and every column index less
\* the index base in [0, K), the reads of csr_row_ptr are at indices in [0, M] and every
\* atomic add goes to an element of C with row in [0, M) and column in [0, N)
C15_as_claimed ==
    (/\ launch.kernel \in {"tn", "tt"}
     /\ Cardinality(DOMAIN args.csr_row_ptr) = args.M + 1
     /\ \A k \in DOMAIN args.csr_col_ind : args.csr_col_ind[k] - args.idx_base \in 0 .. (args.K - 1)) =>
        /\ \A s \in DOMAIN wf : wf[s].pc # "done" => wf[s].row + 1 <= args.M
        /\ \A x \in Cacc.scat : x[1] \in 0 .. (args.nnz - 1) /\ x[3] \in CoveredAddrs

\* a finished tn launch on a matrix stored with more rows than C has (K > M) that has made
\* atomic adds for a nonzero of its last stored row
C15_witness ==
    /\ Finished
    /\ launch.kernel = "tn"
    /\ Cardinality(DOMAIN args.csr_row_ptr) = args.K + 1
    /\ args.K > args.M
    /\ \E x \in Cacc.scat : RowOf(x[1]) = args.K - 1

\* conjugation as the operation descriptor asks for it
ConjA(v) == IF args.trans_A = rocsparse_operation_conjugate_transpose THEN <<v[1], 0 - v[2]>> ELSE v
ConjB(v) == IF args.trans_B = rocsparse_operation_conjugate_transpose THEN <<v[1], 0 - v[2]>> ELSE v

\* for a matrix given by the base-0 arrays rp and ci: the sum over the nonzeros k of row
\* `row` of op(val[k]) * op(B at (ci[k], col)), B addressed as nn (nt) addresses it
RowProduct(rp, ci, row, col) ==
    SumRange([k \in rp[row] .. (rp[row + 1] - 1) |->
                 mul(ConjA(args.csr_val[k]),
                     ConjB(IF launch.kernel = "nn" THEN launch.B[ci[k] + col * args.ldb]
                                                   ELSE launch.B[col + args.ldb * ci[k]]))],
             rp[row], rp[row + 1])

\* the sum over the nonzeros k with ci[k] = c of op(val[k]) * op(B at (row of k, n)), B
\* addressed as tn (tt) addresses it
ScatterProduct(rp, ci, c, n) ==
    SumRange([k \in 0 .. (args.nnz - 1) |->
                 IF ci[k] = c
                 THEN LET r == CHOOSE x \in DOMAIN rp : (x + 1) \in DOMAIN rp /\ rp[x] <= k /\ k < rp[x + 1]
                      IN  mul(ConjA(args.csr_val[k]), ConjB(LogicalB(r, n)))
                 ELSE Zero],
             0, args.nnz)

\* the C buffer after a launch of a product kernel on the matrix given by rp and ci
Final(rp, ci) ==
    [a \in DOMAIN C |->
        IF a \in CoveredAddrs
        THEN LET p == CHOOSE q \in Rows \X Covered : CAddr(q[1], q[2]) = a
             IN  IF launch.kernel \in {"nn", "nt"}
                 THEN add(mul(args.beta, launch.C_start[a]),
                          mul(args.alpha, RowProduct(rp, ci, p[1], p[2])))
                 ELSE add(launch.C_start[a], mul(args.alpha, ScatterProduct(rp, ci, p[1], p[2])))
        ELSE launch.C_start[a]]

\* the row lengths of the stored matrix, and its arrays in index base 0
LensOf ==
    [r \in 1 .. (Cardinality(DOMAIN args.csr_row_ptr) - 1) |->
        args.csr_row_ptr[r] - args.csr_row_ptr[r - 1]]
Base0RowPtr == CsrRowPtr(LensOf, 0)
Base0ColInd == CsrColInd(LensOf, IF launch.kernel \in {"nn", "nt"} THEN args.K ELSE args.M, 0)

\* C19: csr_row_ptr and csr_col_ind are the arrays of the matrix in index base 0 with
\* idx_base added to every entry, and a finished launch of csrmmnn, csrmmnt, csrmmtn or
\* csrmmtt ends with the C that the base-0 arrays determine, whether idx_base is 0 or 1
C19_base_invariant ==
    (Finished /\ launch.kernel \in {"nn", "nt", "tn", "tt"}) =>
        /\ args.csr_row_ptr = [r \in DOMAIN Base0RowPtr |-> Base0RowPtr[r] + args.idx_base]
        /\ args.csr_col_ind = [k \in DOMAIN Base0ColInd |-> Base0ColInd[k] + args.idx_base]
        /\ C = Final(Base0RowPtr, Base0ColInd)

\* a finished nn launch with index base 1 on a matrix with a nonzero in column 0
C19_witness ==
    /\ Finished
    /\ launch.kernel = "nn"
    /\ args.idx_base = 1
    /\ \E k \in DOMAIN args.csr_col_ind : args.csr_col_ind[k] = 1
    /\ C # launch.C_start

\* C20: a finished launch of csrmmnn, csrmmnt, csrmmtn or csrmmtt ends with the C in which
\* every coefficient of A is conjugated exactly when trans_A is conjugate-transpose and every
\* element of B exactly when trans_B is conjugate-transpose: with both, every element is a
\* sum of conj(a) * conj(b)
C20_conjugation ==
    (Finished /\ launch.kernel \in {"nn", "nt", "tn", "tt"}) =>
        C = Final([r \in DOMAIN args.csr_row_ptr |-> args.csr_row_ptr[r] - args.idx_base],
                  [k \in DOMAIN args.csr_col_ind |-> args.csr_col_ind[k] - args.idx_base])

\* a finished tt launch with conjugate-transpose on A and plain transpose on B, with a stored
\* row of more than WF_SIZE nonzeros
C20_witness ==
    /\ Finished
    /\ launch.kernel = "tt"
    /\ args.trans_A = rocsparse_operation_conjugate_transpose
    /\ args.trans_B = rocsparse_operation_transpose
    /\ \E r \in 0 .. (args.K - 1) : RowEnd(r) - RowStart(r) > WFSIZE

====
